---- MODULE Spec2Model ----
(***************************************************************************)
(* A model of spoti-down-m4a-opus-v4.2.py: the URL classifier, the quality *)
(* preset table, the Spotify and JioSaavn resolvers, the downloader and    *)
(* the orchestrator main().                                                *)
(*                                                                         *)
(* Python strings are sequences of one-character strings, so that `in`,    *)
(* split, strip and replace are computed character by character.  The      *)
(* external collaborators (the HTTP client, the media extraction library,  *)
(* the console) are nondeterministic: every call either raises or returns  *)
(* one of the shapes the collaborator can produce.                         *)
(***************************************************************************)
EXTENDS Naturals, Integers, Sequences, FiniteSets, TLC

VARIABLES
    pc,            \* position of the run
    url,           \* main: the URL after strip() and the default
    url_type,      \* main: detect_url_type(url)
    quality,       \* main: the quality key after the default and the validity check
    calls,         \* every external call made so far, in order
    access_token,  \* SpotifyAPI.access_token of the instance in use
    track_info,    \* main: what spotify.get_track_info(url) returned
    outcome,       \* main: how the run ended
    raised,        \* an exception escaped the run
    ncalls,        \* number of get_track_info calls made on the instance
    last           \* the last method called on its own: name, arguments, result

vars == <<pc, url, url_type, quality, calls, access_token, track_info,
          outcome, raised, ncalls, last>>

(***************************************************************************)
(* Bounds of the model.                                                    *)
(***************************************************************************)
MaxPieces == 2      \* a URL typed by the user is at most this many pieces
MaxKeys == 2        \* top-level keys of a JioSaavn details response
MaxArtists == 2     \* artists of a Spotify track
MaxCalls == 3       \* get_track_info calls on one SpotifyAPI instance

(***************************************************************************)
(* String literals of the source.                                          *)
(***************************************************************************)
SPOTIFY_COM == <<"s", "p", "o", "t", "i", "f", "y", ".", "c", "o", "m">>
JIOSAAVN_COM == <<"j", "i", "o", "s", "a", "a", "v", "n", ".", "c", "o", "m">>
SAAVN_COM == <<"s", "a", "a", "v", "n", ".", "c", "o", "m">>
SONG_SEP == <<"/", "s", "o", "n", "g", "/">>
TRACK_SEP == <<"/", "t", "r", "a", "c", "k", "/">>
DEFAULT_URL == <<"h", "t", "t", "p", "s", ":", "/", "/", "w", "w", "w", ".",
                 "j", "i", "o", "s", "a", "a", "v", "n", ".", "c", "o", "m",
                 "/", "s", "o", "n", "g", "/", "s", "l", "a", "v", "a", "-",
                 "f", "u", "n", "k", "/", "M", "i", "8", "I", "R", "k", "x",
                 "D", "A", "U", "M">>
YTSEARCH == <<"y", "t", "s", "e", "a", "r", "c", "h", "1", ":">>
UNKNOWN == <<"U", "n", "k", "n", "o", "w", "n">>
SONGS == <<"s", "o", "n", "g", "s">>
ENCRYPTED_MEDIA_URL == <<"e", "n", "c", "r", "y", "p", "t", "e", "d", "_",
                         "m", "e", "d", "i", "a", "_", "u", "r", "l">>
MEDIA_PREVIEW_URL == <<"m", "e", "d", "i", "a", "_", "p", "r", "e", "v", "i",
                       "e", "w", "_", "u", "r", "l">>
AUTH_URL == <<"a", "u", "t", "h", "_", "u", "r", "l">>
NAME == <<"n", "a", "m", "e">>
ARTISTS == <<"a", "r", "t", "i", "s", "t", "s">>
ALBUM == <<"a", "l", "b", "u", "m">>
DURATION_MS == <<"d", "u", "r", "a", "t", "i", "o", "n", "_", "m", "s">>

(***************************************************************************)
(* Python's str operations.                                                *)
(***************************************************************************)
\* s.find(sep, i - 1) + 1: the first position from i on where sep starts,
\* 0 when there is none
RECURSIVE FindFrom(_, _, _)
FindFrom(s, sep, i) ==
    IF i + Len(sep) - 1 > Len(s) THEN 0
    ELSE IF SubSeq(s, i, i + Len(sep) - 1) = sep THEN i
    ELSE FindFrom(s, sep, i + 1)

Find(s, sep) == FindFrom(s, sep, 1)

\* sub in s
Contains(s, sub) == Find(s, sub) # 0

\* s.split(sep), sep non-empty: the pieces between the occurrences of sep,
\* found left to right without overlap
RECURSIVE Split(_, _)
Split(s, sep) ==
    LET i == Find(s, sep)
    IN  IF i = 0
        THEN <<s>>
        ELSE <<SubSeq(s, 1, i - 1)>> \o Split(SubSeq(s, i + Len(sep), Len(s)), sep)

\* s.replace(old, new) for one-character old and new
Replace(s, old, new) == [i \in 1..Len(s) |-> IF s[i] = old THEN new ELSE s[i]]

\* s.rstrip(ch)
RECURSIVE RStrip(_, _)
RStrip(s, ch) ==
    IF s # <<>> /\ s[Len(s)] = ch THEN RStrip(SubSeq(s, 1, Len(s) - 1), ch) ELSE s

\* s.lstrip(ch)
RECURSIVE LStrip(_, _)
LStrip(s, ch) ==
    IF s # <<>> /\ s[1] = ch THEN LStrip(SubSeq(s, 2, Len(s)), ch) ELSE s

\* s.strip(), the whitespace of the inputs being the blank
Strip(s) == LStrip(RStrip(s, " "), " ")

\* sep.join(parts)
RECURSIVE Join(_, _)
Join(sep, parts) ==
    IF parts = <<>> THEN <<>>
    ELSE IF Len(parts) = 1 THEN parts[1]
    ELSE parts[1] \o sep \o Join(sep, Tail(parts))

\* all sequences over S of length at most n
RECURSIVE SeqsUpTo(_, _)
SeqsUpTo(S, n) ==
    IF n = 0 THEN {<<>>}
    ELSE LET shorter == SeqsUpTo(S, n - 1)
         IN  shorter \cup {Append(q, x) : q \in shorter, x \in S}

\* the concatenation of a sequence of strings
RECURSIVE Flatten(_)
Flatten(parts) == IF parts = <<>> THEN <<>> ELSE parts[1] \o Flatten(Tail(parts))

(***************************************************************************)
(* JSON values, as response.json() returns them: a dict is its ordered     *)
(* sequence of <<key, value>> pairs, a list the sequence of its items, a   *)
(* string its characters.  JSON null is Python's None.                     *)
(***************************************************************************)
None == [t |-> "null", v |-> <<>>]
JNum == [t |-> "num", v |-> <<>>]
JStr(chars) == [t |-> "str", v |-> chars]
JList(items) == [t |-> "list", v |-> items]
JDict(pairs) == [t |-> "dict", v |-> pairs]

\* isinstance(x, dict)
IsDict(x) == x.t = "dict"

\* len(x) is defined
Sized(x) == x.t \in {"dict", "list", "str"}

\* key in x, for x a dict
HasKey(x, key) == \E i \in 1..Len(x.v) : x.v[i][1] = key

\* x[key], for x a dict that has the key
Get(x, key) == x.v[CHOOSE i \in 1..Len(x.v) : x.v[i][1] = key][2]

\* `key in x` for any x: whether it raises, and its value when it does not
InRaises(x) == ~Sized(x)
In(key, x) ==
    CASE x.t = "dict" -> HasKey(x, key)
      [] x.t = "list" -> \E i \in 1..Len(x.v) : x.v[i].t = "str" /\ x.v[i].v = key
      [] x.t = "str" -> Contains(x.v, key)
      [] OTHER -> FALSE

\* bool(x)
Truthy(x) ==
    CASE x.t \in {"dict", "list", "str"} -> x.v # <<>>
      [] x.t = "num" -> TRUE
      [] OTHER -> FALSE

(***************************************************************************)
(* What a method call did: the value it returned, whether an exception     *)
(* left it instead, and the external calls it made.                        *)
(***************************************************************************)
NoToken == "None"
NoPP == <<>>

\* one external call: the operation, what it was asked for, the
\* postprocessors handed to yt_dlp, the token sent or granted, and whether
\* it delivered (a parsed body, a written file, an info dict)
Req(op, src, pp, tok, ok) == [op |-> op, src |-> src, pp |-> pp, tok |-> tok, ok |-> ok]

Returned(value, reqs) == [ret |-> value, raised |-> FALSE, reqs |-> reqs]
Raised(reqs) == [ret |-> None, raised |-> TRUE, reqs |-> reqs]

\* try: body / except Exception: return value
Except(body, value) == IF body.raised THEN Returned(value, body.reqs) ELSE body

\* an HTTP exchange: requests.get/post or raise_for_status() raises
\* ("http_error"), response.json() raises ("bad_json"), or a body is parsed
HttpOutcomes(bodies) ==
    {[kind |-> "http_error", body |-> None], [kind |-> "bad_json", body |-> None]}
        \cup {[kind |-> "json", body |-> b] : b \in bodies}

(***************************************************************************)
(* JioSaavnAPI                                                             *)
(***************************************************************************)
\* the loop over data.keys(): the first dict-valued key's value
FirstDictValue(data) ==
    LET hits == {i \in 1..Len(data.v) : IsDict(data.v[i][2])}
    IN  IF hits = {} THEN None
        ELSE data.v[CHOOSE i \in hits : \A j \in hits : i <= j][2]

get_song_details(song_url, resp) ==
    LET song_id == LET parts == Split(RStrip(song_url, "/"), <<"/">>)
                   IN  parts[Len(parts)]
        reqs == <<Req("song.getDetails", song_id, NoPP, NoToken, resp.kind = "json")>>
        data == resp.body
        songs == Get(data, SONGS)
        body ==
            IF resp.kind # "json" THEN Raised(reqs)
            ELSE IF IsDict(data)
            THEN IF HasKey(data, song_id) THEN Returned(Get(data, song_id), reqs)
                 ELSE IF HasKey(data, SONGS)
                 THEN IF ~Sized(songs) THEN Raised(reqs)           \* len() of None or a number
                      ELSE IF Len(songs.v) > 0
                      THEN CASE songs.t = "list" -> Returned(songs.v[1], reqs)
                             [] songs.t = "str" -> Returned(JStr(<<songs.v[1]>>), reqs)
                             [] OTHER -> Raised(reqs)               \* KeyError: 0
                      ELSE Returned(FirstDictValue(data), reqs)
                 ELSE Returned(FirstDictValue(data), reqs)
            ELSE Returned(None, reqs)
    IN  Except(body, None)

decrypt_url(encrypted_url, q, resp) ==
    LET reqs == <<Req("song.generateAuthToken", encrypted_url.v, NoPP, NoToken,
                      resp.kind = "json")>>
        data == resp.body
        body ==
            IF resp.kind # "json" THEN Raised(reqs)
            ELSE IF InRaises(data) THEN Raised(reqs)
            ELSE IF In(AUTH_URL, data)
            THEN IF IsDict(data) THEN Returned(Get(data, AUTH_URL), reqs)
                 ELSE Raised(reqs)                                  \* list or str indexed by a str
            ELSE Returned(None, reqs)
    IN  Except(body, None)

get_audio_url(song_details, q, resp) ==
    LET body ==
            IF InRaises(song_details) THEN Raised(<<>>)
            ELSE IF In(ENCRYPTED_MEDIA_URL, song_details)
            THEN IF IsDict(song_details)
                 THEN decrypt_url(Get(song_details, ENCRYPTED_MEDIA_URL), q, resp)
                 ELSE Raised(<<>>)
            ELSE IF In(MEDIA_PREVIEW_URL, song_details)
            THEN IF IsDict(song_details)
                 THEN Returned(Get(song_details, MEDIA_PREVIEW_URL), <<>>)
                 ELSE Raised(<<>>)
            ELSE Returned(None, <<>>)
    IN  Except(body, None)

(***************************************************************************)
(* SpotifyAPI.  A method that assigns self.access_token also gives the     *)
(* token the instance holds afterwards.                                    *)
(***************************************************************************)
Tokens == {"tokenA", "tokenB"}

\* the token endpoint's answers: an error, an unparsable body, a body
\* without "access_token", or a token
AuthOutcomes ==
    {[kind |-> k, token |-> NoToken] : k \in {"http_error", "bad_json", "no_key"}}
        \cup {[kind |-> "json", token |-> t] : t \in Tokens}

\* get_access_token that returns True without keeping the token
get_access_token_forgets(token, auth) ==
    LET ok == auth.kind = "json"
        reqs == <<Req("auth", <<>>, NoPP, auth.token, ok)>>
        body == IF ok THEN Returned(TRUE, reqs) ELSE Raised(reqs)
    IN  [r |-> Except(body, FALSE), token |-> token]

get_access_token(token, auth) ==
    LET ok == auth.kind = "json"
        reqs == <<Req("auth", <<>>, NoPP, auth.token, ok)>>
        body == IF ok THEN Returned(TRUE, reqs) ELSE Raised(reqs)
    IN  [r |-> Except(body, FALSE), token |-> IF ok THEN auth.token ELSE token]

get_track_info(token, track_url, auth, meta) ==
    LET a == get_access_token(token, auth)
        needAuth == token = NoToken
        bearer == IF needAuth THEN a.token ELSE token
        pre == IF needAuth THEN a.r.reqs ELSE <<>>
        track_id == Split(LET parts == Split(track_url, TRACK_SEP)
                          IN  parts[Len(parts)], <<"?">>)[1]
        reqs == pre \o <<Req("tracks", track_id, NoPP, bearer, meta.kind = "json")>>
        body == IF meta.kind = "json" THEN Returned(meta.body, reqs) ELSE Raised(reqs)
    IN  IF needAuth /\ a.r.raised THEN [r |-> Raised(pre), token |-> a.token]
        ELSE IF needAuth /\ ~a.r.ret
        THEN [r |-> Returned(None, pre), token |-> a.token]
        ELSE [r |-> Except(body, None), token |-> bearer]

(***************************************************************************)
(* AudioDownloader                                                         *)
(***************************************************************************)
NoBitrate == "None"

Key1 == <<"1">>
Key2 == <<"2">>
Key3 == <<"3">>

QUALITY_PRESETS ==
    (Key1 :> [name |-> "M4A 320kbps (Best Quality)", codec |-> "m4a", bitrate |-> "320"])
    @@ (Key2 :> [name |-> "Opus 160kbps (High Efficiency)", codec |-> "opus", bitrate |-> "160"])
    @@ (Key3 :> [name |-> "Best Available (No Conversion)", codec |-> "best", bitrate |-> NoBitrate])

\* a lookup that falls back to preset '3'
PresetFor_default3(quality_choice) ==
    IF quality_choice \in DOMAIN QUALITY_PRESETS
    THEN QUALITY_PRESETS[quality_choice]
    ELSE QUALITY_PRESETS[Key3]

\* QUALITY_PRESETS.get(quality_choice, QUALITY_PRESETS['1'])
PresetFor(quality_choice) ==
    IF quality_choice \in DOMAIN QUALITY_PRESETS
    THEN QUALITY_PRESETS[quality_choice]
    ELSE QUALITY_PRESETS[Key1]

get_download_options(quality_choice) ==
    LET preset == PresetFor(quality_choice)
        base == [key |-> "FFmpegExtractAudio", preferredcodec |-> preset.codec]
        postprocessor ==
            IF preset.bitrate # NoBitrate
            THEN [key |-> base.key, preferredcodec |-> base.preferredcodec,
                  preferredquality |-> preset.bitrate]
            ELSE base
    IN  [format |-> "bestaudio/best", keepvideo |-> TRUE,
         postprocessors |-> IF preset.codec = "best" THEN <<>> ELSE <<postprocessor>>]

\* what yt_dlp's extract_info(url, download=True) can do: raise, return
\* None, or return an info dict whose "duration" is absent, an int, a float
\* or None
ExtractOutcomes ==
    {[kind |-> "raise", duration |-> "absent"], [kind |-> "none", duration |-> "absent"]}
        \cup {[kind |-> "info", duration |-> d] : d \in {"absent", "int", "float", "null"}}

download_direct(u, filename, resp) ==
    LET ok == resp = "ok"
        reqs == <<Req("direct", u, NoPP, NoToken, ok)>>
    IN  Except(IF ok THEN Returned(TRUE, reqs) ELSE Raised(reqs), FALSE)

\* download_youtube that tries the search a second time when it failed
download_youtube_retry(search_query, quality_choice, ext) ==
    LET u == YTSEARCH \o search_query
        ydl_opts == get_download_options(quality_choice)
        reqs == <<Req("extract_info", u, ydl_opts.postprocessors, NoToken,
                      ext.kind = "info")>>
        body == IF ext.kind = "info" THEN Returned(TRUE, reqs)
                ELSE Raised(reqs \o reqs)
    IN  Except(body, FALSE)

\* download_youtube without its try/except
download_youtube_unguarded(search_query, quality_choice, ext) ==
    LET u == YTSEARCH \o search_query
        ydl_opts == get_download_options(quality_choice)
        reqs == <<Req("extract_info", u, ydl_opts.postprocessors, NoToken,
                      ext.kind = "info")>>
    IN  IF ext.kind = "info" THEN Returned(TRUE, reqs) ELSE Raised(reqs)

download_youtube(search_query, quality_choice, ext) ==
    LET u == YTSEARCH \o search_query
        ydl_opts == get_download_options(quality_choice)
        reqs == <<Req("extract_info", u, ydl_opts.postprocessors, NoToken,
                      ext.kind = "info")>>
        body == IF ext.kind = "info" THEN Returned(TRUE, reqs)
                ELSE Raised(reqs)                 \* extract_info raised, or None.get
    IN  Except(body, FALSE)

(***************************************************************************)
(* detect_url_type                                                         *)
(***************************************************************************)
\* the two tests in the other order
detect_url_type_swapped(u) ==
    IF Contains(u, JIOSAAVN_COM) \/ Contains(u, SAAVN_COM) THEN "jiosaavn"
    ELSE IF Contains(u, SPOTIFY_COM) THEN "spotify"
    ELSE "other"

detect_url_type(u) ==
    IF Contains(u, SPOTIFY_COM) THEN "spotify"
    ELSE IF Contains(u, JIOSAAVN_COM) \/ Contains(u, SAAVN_COM) THEN "jiosaavn"
    ELSE "other"

(***************************************************************************)
(* main(): the steps of the orchestrator between two external calls.       *)
(***************************************************************************)
\* the try block of the jiosaavn branch: extract_info on the URL, then the
\* track summary computed from the info it returned.  info.get on None,
\* None // 60 and format(float, "02d") raise.
jiosaavn_attempt(u, q, ext) ==
    LET ydl_opts == get_download_options(q)
        reqs == <<Req("extract_info", u, ydl_opts.postprocessors, NoToken,
                      ext.kind = "info")>>
        body == IF ext.kind = "info" /\ ext.duration \in {"absent", "int"}
                THEN Returned(TRUE, reqs)
                ELSE Raised(reqs)
    IN  Except(body, FALSE)

\* url.split('/song/')[-1].split('/')[0].replace('-', ' ')
song_name_of(u) ==
    LET parts == Split(u, SONG_SEP)
    IN  Replace(Split(parts[Len(parts)], <<"/">>)[1], "-", " ")

\* track_info.get(key, default)
GetOr(x, key, default) == IF HasKey(x, key) THEN Get(x, key) ELSE default

\* the track details main() reads from track_info, and whether reading
\* them raises: .get on a non-dict, artist['name'] on an artist without a
\* name, join on a name that is no string, .get on an album that is no
\* dict, // on a duration that is no number
track_details(info) ==
    LET artists == GetOr(info, ARTISTS, JList(<<>>))
        album == GetOr(info, ALBUM, JDict(<<>>))
        duration_ms == GetOr(info, DURATION_MS, JNum)
        bad == \/ ~IsDict(info)
               \/ artists.t # "list"
               \/ \E i \in 1..Len(artists.v) :
                      \/ ~IsDict(artists.v[i])
                      \/ ~HasKey(artists.v[i], NAME)
                      \/ Get(artists.v[i], NAME).t # "str"
               \/ ~IsDict(album)
               \/ duration_ms.t # "num"
    IN  IF bad THEN [raised |-> TRUE, name |-> <<>>, artists |-> <<>>]
        ELSE [raised |-> FALSE,
              name |-> GetOr(info, NAME, JStr(UNKNOWN)).v,
              artists |-> [i \in 1..Len(artists.v) |-> Get(artists.v[i], NAME).v]]

\* the query built with the separator of the printed summary
search_query_of_commas(d) == d.name \o <<" ">> \o Join(<<",", " ">>, d.artists)

\* f"{track_name} {' '.join(artists)}"
search_query_of(d) == d.name \o <<" ">> \o Join(<<" ">>, d.artists)

(***************************************************************************)
(* The inputs: what the user types and what the services answer.           *)
(***************************************************************************)
UrlPieces == {SPOTIFY_COM, SAAVN_COM, SONG_SEP, <<"a", "-", "b">>, <<"/">>}
UrlInputs ==
    {Flatten(q) : q \in SeqsUpTo(UrlPieces, MaxPieces)}
        \cup {<<" ">>, <<" ">> \o SAAVN_COM \o <<"/", " ">>,
              <<"S", "p", "o", "t", "i", "f", "y", ".", "c", "o", "m">>,
              <<"S", "A", "A", "V", "N", ".", "c", "o", "m">>,
              JIOSAAVN_COM \o SONG_SEP \o <<"a", "-", "b", "/", "c", "-", "d">>,
              <<"a", "-", "b", ".", "c", "o", "m", "/", "x">>}

QualityInputs ==
    {<<>>, Key1, Key2, Key3, <<"4">>, <<"0">>, <<" ", "2">>, <<"1", "2">>, <<" ">>}

\* the Spotify track objects: a name, the artists' names, an album, a duration
ArtistNames == {<<"x">>, <<"y", "z">>}
TrackNames == {<<"t", " ", "u">>}
TrackObject(name, artists) ==
    JDict(<< <<ALBUM, JDict(<< <<NAME, JStr(<<"l">>)>> >>)>>,
             <<ARTISTS, JList([i \in 1..Len(artists) |->
                                 JDict(<< <<NAME, JStr(artists[i])>> >>)])>>,
             <<DURATION_MS, JNum>>,
             <<NAME, JStr(name)>> >>)
TrackObjects ==
    {TrackObject(n, a) : n \in TrackNames, a \in SeqsUpTo(ArtistNames, MaxArtists)}

\* the JioSaavn answers: a dict of at most MaxKeys keys, or no dict at all
SongDict == JDict(<< <<ENCRYPTED_MEDIA_URL, JStr(<<"e">>)>> >>)
PreviewDict == JDict(<< <<MEDIA_PREVIEW_URL, JStr(<<"p">>)>> >>)
SongId == <<"I", "d">>
DetailKeys == {SongId, SONGS, <<"k">>, <<"m">>}
DetailValues ==
    {JDict(<<>>), SongDict, JList(<<>>), JList(<<SongDict>>), None, JNum, JStr(<<"x">>)}
DetailDicts ==
    {JDict(p) : p \in {q \in SeqsUpTo(DetailKeys \X DetailValues, MaxKeys) :
                          \A i, j \in 1..Len(q) : i # j => q[i][1] # q[j][1]}}
DetailBodies == DetailDicts \cup {JList(<<SongDict>>), JList(<<>>), None, JStr(SongId)}
DetailUrls ==
    {<<"x", "/">> \o SongId, <<"x", "/">> \o SongId \o <<"/", "/">>, <<"x", "/">> \o SONGS}

\* the arguments and answers of get_audio_url and decrypt_url
SongDetails ==
    {None, JNum, JDict(<<>>), SongDict, PreviewDict,
     JDict(<< <<MEDIA_PREVIEW_URL, JStr(<<"p">>)>>, <<ENCRYPTED_MEDIA_URL, JStr(<<"e">>)>> >>),
     JList(<<JStr(ENCRYPTED_MEDIA_URL)>>), JList(<<JStr(MEDIA_PREVIEW_URL)>>),
     JStr(MEDIA_PREVIEW_URL)}
DecryptBodies ==
    {None, JNum, JDict(<<>>), JDict(<< <<AUTH_URL, JStr(<<"u">>)>> >>),
     JList(<<JStr(AUTH_URL)>>), JStr(AUTH_URL)}

NoCall == [fn |-> "none", arg |-> <<>>, r |-> Returned(None, <<>>), before |-> NoToken]

(***************************************************************************)
(* The state after construction: nothing typed, nothing called.            *)
(***************************************************************************)
Init ==
    /\ pc = "start"
    /\ url = <<>>
    /\ url_type = "none"
    /\ quality = <<>>
    /\ calls = <<>>
    /\ access_token = NoToken
    /\ track_info = None
    /\ outcome = "none"
    /\ raised = FALSE
    /\ ncalls = 0
    /\ last = NoCall

\* lines 272-280
ReadUrl ==
    /\ pc = "start"
    /\ \E typed \in UrlInputs :
          LET u == IF Strip(typed) = <<>> THEN DEFAULT_URL ELSE Strip(typed)
          IN  /\ url' = u
              /\ url_type' = detect_url_type(u)
    /\ pc' = "select_quality"
    /\ UNCHANGED <<quality, calls, access_token, track_info, outcome, raised, ncalls, last>>

\* lines 283-292, 331, 367
SelectQuality ==
    /\ pc = "select_quality"
    /\ \E typed \in QualityInputs :
          LET q == IF Strip(typed) = <<>> THEN Key1 ELSE Strip(typed)
          IN  quality' = IF q \notin DOMAIN QUALITY_PRESETS THEN Key1 ELSE q
    /\ pc' = url_type
    /\ UNCHANGED <<url, url_type, calls, access_token, track_info, outcome, raised, ncalls, last>>

\* lines 293-325
JioSaavnPrimary ==
    /\ pc = "jiosaavn"
    /\ \E ext \in ExtractOutcomes :
          LET r == jiosaavn_attempt(url, quality, ext)
          IN  /\ calls' = calls \o r.reqs
              /\ raised' = r.raised
              /\ pc' = IF r.raised \/ r.ret THEN "done" ELSE "jiosaavn_fallback"
              /\ outcome' = IF r.raised THEN "error" ELSE IF r.ret THEN "succeeded" ELSE outcome
    /\ UNCHANGED <<url, url_type, quality, access_token, track_info, ncalls, last>>

\* lines 327-329
JioSaavnFallback ==
    /\ pc = "jiosaavn_fallback"
    /\ \E ext \in ExtractOutcomes :
          LET r == download_youtube(song_name_of(url), quality, ext)
          IN  /\ calls' = calls \o r.reqs
              /\ raised' = r.raised
              /\ outcome' = IF r.raised THEN "error" ELSE IF r.ret THEN "succeeded" ELSE "failed"
    /\ pc' = "done"
    /\ UNCHANGED <<url, url_type, quality, access_token, track_info, ncalls, last>>

\* lines 332-339
SpotifyResolve ==
    /\ pc = "spotify"
    /\ \E auth \in AuthOutcomes, meta \in HttpOutcomes(TrackObjects) :
          LET g == get_track_info(NoToken, url, auth, meta)
          IN  /\ calls' = calls \o g.r.reqs
              /\ access_token' = g.token
              /\ track_info' = g.r.ret
              /\ raised' = g.r.raised
              /\ pc' = IF g.r.raised \/ ~Truthy(g.r.ret) THEN "done" ELSE "spotify_download"
              /\ outcome' = IF g.r.raised THEN "error"
                            ELSE IF ~Truthy(g.r.ret) THEN "failed" ELSE outcome
    /\ UNCHANGED <<url, url_type, quality, ncalls, last>>

\* lines 341-365
SpotifyDownload ==
    /\ pc = "spotify_download"
    /\ \E ext \in ExtractOutcomes :
          LET d == track_details(track_info)
              r == IF d.raised THEN Raised(<<>>)
                   ELSE download_youtube(search_query_of(d), quality, ext)
          IN  /\ calls' = calls \o r.reqs
              /\ raised' = r.raised
              /\ outcome' = IF r.raised THEN "error" ELSE IF r.ret THEN "succeeded" ELSE "failed"
    /\ pc' = "done"
    /\ UNCHANGED <<url, url_type, quality, access_token, track_info, ncalls, last>>

\* an unknown URL handed to the search all the same
RejectOther_searches ==
    /\ pc = "other"
    /\ pc' = "done"
    /\ \E ext \in ExtractOutcomes :
          LET r == download_youtube(url, quality, ext)
          IN  /\ calls' = calls \o r.reqs
              /\ outcome' = IF r.ret THEN "succeeded" ELSE "failed"
    /\ UNCHANGED <<url, url_type, quality, access_token, track_info, raised, ncalls, last>>

\* lines 367-368
RejectOther ==
    /\ pc = "other"
    /\ pc' = "done"
    /\ outcome' = "failed"
    /\ UNCHANGED <<url, url_type, quality, calls, access_token, track_info, raised, ncalls, last>>

(***************************************************************************)
(* The methods called on their own, each on fresh arguments.               *)
(***************************************************************************)
Call(fn, arg, r) ==
    /\ pc' = "returned"
    /\ last' = [fn |-> fn, arg |-> arg, r |-> r, before |-> NoToken]
    /\ calls' = calls \o r.reqs
    /\ raised' = r.raised
    /\ UNCHANGED <<url, url_type, quality, access_token, track_info, outcome, ncalls>>

CallDetectUrlType ==
    /\ pc = "start"
    /\ \E u \in UrlInputs : Call("detect_url_type", u, Returned(detect_url_type(u), <<>>))

CallGetDownloadOptions ==
    /\ pc = "start"
    /\ \E k \in QualityInputs :
          Call("get_download_options", k, Returned(get_download_options(k), <<>>))

CallGetSongDetails ==
    /\ pc = "start"
    /\ \E u \in DetailUrls, resp \in HttpOutcomes(DetailBodies) :
          Call("get_song_details", <<u, resp>>, get_song_details(u, resp))

CallGetAudioUrl ==
    /\ pc = "start"
    /\ \E d \in SongDetails, resp \in HttpOutcomes(DecryptBodies) :
          Call("get_audio_url", <<d, resp>>, get_audio_url(d, "320", resp))

CallDecryptUrl ==
    /\ pc = "start"
    /\ \E resp \in HttpOutcomes(DecryptBodies) :
          Call("decrypt_url", <<resp>>, decrypt_url(JStr(<<"e">>), "320", resp))

CallDownloadDirect ==
    /\ pc = "start"
    /\ \E resp \in {"ok", "http_error", "io_error"} :
          Call("download_direct", <<resp>>, download_direct(<<"u">>, <<"f">>, resp))

CallDownloadYoutube ==
    /\ pc = "start"
    /\ \E k \in QualityInputs, ext \in ExtractOutcomes :
          Call("download_youtube", <<k, ext>>, download_youtube(<<"a", " ", "b">>, k, ext))

\* one more get_track_info on the same SpotifyAPI instance
CallGetTrackInfo ==
    /\ pc \in {"start", "spotify_api"}
    /\ ncalls < MaxCalls
    /\ \E auth \in AuthOutcomes, meta \in HttpOutcomes(TrackObjects) :
          LET g == get_track_info(access_token, <<"x">> \o TRACK_SEP \o <<"i", "?", "s">>,
                                  auth, meta)
          IN  /\ last' = [fn |-> "get_track_info", arg |-> <<auth, meta>>, r |-> g.r,
                          before |-> access_token]
              /\ calls' = calls \o g.r.reqs
              /\ access_token' = g.token
              /\ raised' = g.r.raised
    /\ pc' = IF raised' THEN "returned" ELSE "spotify_api"
    /\ ncalls' = ncalls + 1
    /\ UNCHANGED <<url, url_type, quality, track_info, outcome>>

Next ==
    \/ ReadUrl
    \/ SelectQuality
    \/ JioSaavnPrimary
    \/ JioSaavnFallback
    \/ SpotifyResolve
    \/ SpotifyDownload
    \/ RejectOther
    \/ CallDetectUrlType
    \/ CallGetDownloadOptions
    \/ CallGetSongDetails
    \/ CallGetAudioUrl
    \/ CallDecryptUrl
    \/ CallDownloadDirect
    \/ CallDownloadYoutube
    \/ CallGetTrackInfo

Spec == Init /\ [][Next]_vars

(***************************************************************************)
(* Vocabulary of the properties.                                           *)
(***************************************************************************)
\* the run is main()'s, past the prompt for the URL
InMain ==
    pc \in {"select_quality", "jiosaavn", "jiosaavn_fallback", "spotify",
            "spotify_download", "other", "done"}

\* p occurs in u at position i, compared character by character
OccursAt(u, p, i) ==
    /\ i >= 1
    /\ i + Len(p) - 1 <= Len(u)
    /\ \A k \in 1..Len(p) : u[i + k - 1] = p[k]
Occurs(u, p) == \E i \in 1..Len(u) : OccursAt(u, p, i)

\* the positions of calls that invoke the external download capability
Downloads == {i \in 1..Len(calls) : calls[i].op \in {"extract_info", "direct"}}
\* ... in search mode
Searches == {i \in Downloads : OccursAt(calls[i].src, YTSEARCH, 1)}
\* ... on a URL itself
Directs == Downloads \ Searches

\* the text of s up to, and without, its first "/"
UpToSlash(s) ==
    IF \E i \in 1..Len(s) : s[i] = "/"
    THEN SubSeq(s, 1, (CHOOSE i \in 1..Len(s) : s[i] = "/" /\ \A j \in 1..(i - 1) : s[j] # "/") - 1)
    ELSE s

\* s with every hyphen turned into a blank
Unhyphenated(s) == [i \in 1..Len(s) |-> IF s[i] = "-" THEN " " ELSE s[i]]

\* phrase is the segment of u after some "/song/" and before the next "/",
\* hyphens replaced by blanks
IsSongPhrase(u, phrase) ==
    \E i \in 1..Len(u) :
        /\ OccursAt(u, SONG_SEP, i)
        /\ phrase = Unhyphenated(UpToSlash(SubSeq(u, i + Len(SONG_SEP), Len(u))))

\* the names of a track object's artists, each preceded by a blank
RECURSIVE BlankBeforeEach(_)
BlankBeforeEach(names) ==
    IF names = <<>> THEN <<>>
    ELSE BlankBeforeEach(SubSeq(names, 1, Len(names) - 1)) \o <<" ">> \o names[Len(names)]

\* track name, a blank, the artist names separated by blanks
TrackPhrase(info) ==
    LET artists == Get(info, ARTISTS).v
        names == [i \in 1..Len(artists) |-> Get(artists[i], NAME).v]
    IN  Get(info, NAME).v \o
        (IF names = <<>> THEN <<" ">> ELSE BlankBeforeEach(names))

(***************************************************************************)
(* C1: in every run of main, whatever the URL, the quality and the         *)
(* outcomes of the external calls, the download capability is invoked at   *)
(* most once on the URL itself and at most once in search mode: at most    *)
(* twice on the jiosaavn branch, at most once on the spotify branch, never *)
(* on the other branch.                                                    *)
(***************************************************************************)
C1_DownloadAttemptsBounded ==
    InMain =>
        /\ Cardinality(Directs) <= 1
        /\ Cardinality(Searches) <= 1
        /\ url_type = "jiosaavn" => Cardinality(Downloads) <= 2
        /\ url_type = "spotify" => Cardinality(Downloads) <= 1
        /\ url_type = "other" => Cardinality(Downloads) = 0

C1_Witness ==
    /\ pc = "done"
    /\ url_type = "jiosaavn"
    /\ Cardinality(Directs) = 1
    /\ Cardinality(Searches) = 1

(***************************************************************************)
(* C2: a URL classified as other ends the run as failed without any        *)
(* external call: no authentication, no metadata request, no JioSaavn      *)
(* request, no download.                                                   *)
(***************************************************************************)
C2_OtherMakesNoCall ==
    (InMain /\ url_type = "other") =>
        /\ calls = <<>>
        /\ access_token = NoToken
        /\ pc \in {"select_quality", "other", "done"}
        /\ pc = "done" => outcome = "failed"

C2_Witness == pc = "done" /\ url_type = "other" /\ outcome = "failed"

(***************************************************************************)
(* C3: on the jiosaavn branch the first call is the extraction on the      *)
(* original URL; when the primary attempt fails the run ends after exactly *)
(* one search, whose phrase is the URL segment after "/song/" and before   *)
(* the next "/" with hyphens replaced by blanks, and the outcome is what   *)
(* that search reports.                                                    *)
(***************************************************************************)
C3_FallbackSearchesSongSegment ==
    (InMain /\ url_type = "jiosaavn") =>
        /\ calls # <<>> => calls[1].op = "extract_info" /\ calls[1].src = url
        /\ pc = "jiosaavn_fallback" => Len(calls) = 1
        /\ (pc = "done" /\ calls # <<>> /\ ~calls[1].ok) =>
              /\ Len(calls) = 2
              /\ calls[2].op = "extract_info"
              /\ \E phrase \in {SubSeq(calls[2].src, Len(YTSEARCH) + 1, Len(calls[2].src))} :
                    /\ calls[2].src = YTSEARCH \o phrase
                    /\ IsSongPhrase(url, phrase)
              /\ outcome = IF calls[2].ok THEN "succeeded" ELSE "failed"

(***************************************************************************)
(* C4: on the spotify branch a failed metadata resolution ends the run as  *)
(* failed without any download; a successful one is always followed by     *)
(* exactly one search, for the track name, a blank and the artist names    *)
(* joined by blanks; the Spotify URL itself is never downloaded.           *)
(***************************************************************************)
C4_SpotifySearchesNameAndArtists ==
    (InMain /\ url_type = "spotify") =>
        LET resolved == \E i \in 1..Len(calls) : calls[i].op = "tracks" /\ calls[i].ok
        IN  /\ Directs = {}
            /\ pc = "spotify_download" => resolved /\ Downloads = {}
            /\ (pc = "done" /\ ~resolved) => Downloads = {} /\ outcome = "failed"
            /\ (pc = "done" /\ resolved) =>
                  /\ Cardinality(Searches) = 1
                  /\ calls[Len(calls)].op = "extract_info"
                  /\ calls[Len(calls)].src = YTSEARCH \o TrackPhrase(track_info)

C4_Witness ==
    /\ pc = "done"
    /\ url_type = "spotify"
    /\ Cardinality(Searches) = 1
    /\ Len(Get(track_info, ARTISTS).v) = 2

(***************************************************************************)
(* C5: no failure of an external call escapes: whichever call fails, the   *)
(* method returns null (false for the two download methods) and main()     *)
(* ends without an exception.                                              *)
(***************************************************************************)
C5_NoErrorEscapes ==
    /\ ~raised
    /\ ~last.r.raised
    /\ (last.fn \in {"get_song_details", "get_audio_url", "decrypt_url", "get_track_info"}
          /\ \E i \in 1..Len(last.r.reqs) : ~last.r.reqs[i].ok)
       => last.r.ret = None
    /\ (last.fn \in {"download_direct", "download_youtube"}
          /\ \E i \in 1..Len(last.r.reqs) : ~last.r.reqs[i].ok)
       => last.r.ret = FALSE
    /\ pc = "done" => outcome \in {"succeeded", "failed"}

C5_Witness ==
    /\ pc = "returned"
    /\ last.fn = "download_youtube"
    /\ ~last.r.reqs[1].ok
    /\ last.r.ret = FALSE

(***************************************************************************)
(* C6: across the get_track_info calls on one instance, once an            *)
(* authentication has succeeded no later call authenticates and every      *)
(* metadata request carries that token; a call made with no token cached   *)
(* authenticates first, and when that fails it returns null without a      *)
(* metadata request and leaves the token empty.                            *)
(***************************************************************************)
C6_TokenCached ==
    (last.fn = "get_track_info") =>
        /\ \A i, j \in 1..Len(calls) :
              (i < j /\ calls[i].op = "auth" /\ calls[i].ok) =>
                  /\ calls[j].op = "tracks"
                  /\ calls[j].tok = calls[i].tok
                  /\ access_token = calls[i].tok
        /\ (\A i \in 1..Len(calls) : ~(calls[i].op = "auth" /\ calls[i].ok))
              => access_token = NoToken
        /\ last.before = NoToken =>
              /\ last.r.reqs[1].op = "auth"
              /\ ~last.r.reqs[1].ok =>
                    /\ Len(last.r.reqs) = 1
                    /\ last.r.ret = None
                    /\ access_token = NoToken
              /\ last.r.reqs[1].ok => Len(last.r.reqs) = 2
        /\ last.before # NoToken =>
              /\ Len(last.r.reqs) = 1
              /\ last.r.reqs[1].op = "tracks"
              /\ last.r.reqs[1].tok = last.before
              /\ access_token = last.before

C6_Witness ==
    /\ ncalls = 3
    /\ Len(calls) = 4
    /\ calls[1].op = "auth" /\ ~calls[1].ok
    /\ calls[2].op = "auth" /\ calls[2].ok
    /\ calls[4].op = "tracks" /\ calls[4].tok = calls[2].tok

(***************************************************************************)
(* C7: detect_url_type returns spotify for every URL that contains         *)
(* "spotify.com", jiosaavn for every other URL that contains               *)
(* "jiosaavn.com" or "saavn.com", and other for the rest, the letters      *)
(* compared as they are.                                                   *)
(***************************************************************************)
ClassOf(u) ==
    IF Occurs(u, SPOTIFY_COM) THEN "spotify"
    ELSE IF Occurs(u, JIOSAAVN_COM) \/ Occurs(u, SAAVN_COM) THEN "jiosaavn"
    ELSE "other"

C7_Classify ==
    /\ InMain => url_type = ClassOf(url)
    /\ last.fn = "detect_url_type" => last.r.ret = ClassOf(last.arg)

C7_Witness ==
    /\ last.fn = "detect_url_type"
    /\ Occurs(last.arg, SPOTIFY_COM)
    /\ Occurs(last.arg, SAAVN_COM)
    /\ last.r.ret = "spotify"

(***************************************************************************)
(* C8: get_download_options gives no post-processing step for key "3",     *)
(* exactly one transcoding step m4a/320 for key "1" and opus/160 for key   *)
(* "2", and for every other key what it gives for key "1".                 *)
(***************************************************************************)
Transcode(codec, bitrate) ==
    <<[key |-> "FFmpegExtractAudio", preferredcodec |-> codec, preferredquality |-> bitrate]>>

C8_Directive ==
    last.fn = "get_download_options" =>
        last.r.ret.postprocessors =
            CASE last.arg = <<"3">> -> <<>>
              [] last.arg = <<"2">> -> Transcode("opus", "160")
              [] OTHER -> Transcode("m4a", "320")

C8_Witness ==
    /\ last.fn = "get_download_options"
    /\ last.arg = <<"4">>
    /\ last.r.ret.postprocessors = Transcode("m4a", "320")

(***************************************************************************)
(* C9: get_song_details returns the value of the requested id when the id  *)
(* is a top-level key; otherwise songs[0] when "songs" is present and      *)
(* non-empty; otherwise the value of the first top-level key whose value   *)
(* is a dict; and null when the response is empty, is no dict, matches     *)
(* none of these, or the request or the parsing failed.                    *)
(***************************************************************************)
\* the id get_song_details asks for: the last segment of the URL
IdOf(u) ==
    LET t == IF \E i \in 1..Len(u) : u[i] # "/"
             THEN SubSeq(u, 1, CHOOSE i \in 1..Len(u) :
                                   u[i] # "/" /\ \A j \in (i + 1)..Len(u) : u[j] = "/")
             ELSE <<>>
        cut == {i \in 1..Len(t) : t[i] = "/"}
    IN  IF cut = {} THEN t
        ELSE SubSeq(t, (CHOOSE i \in cut : \A j \in cut : j <= i) + 1, Len(t))

\* what the extraction order allows as the result; a "songs" value that is a
\* non-empty dict has no element 0 and leaves the result open
DetailsAllowed(id, resp, result) ==
    LET data == resp.body
        keys == {i \in 1..Len(data.v) : TRUE}
        at(k) == {i \in keys : data.v[i][1] = k}
        val(k) == data.v[CHOOSE i \in at(k) : TRUE][2]
        dicts == {i \in keys : data.v[i][2].t = "dict"}
        third == IF dicts = {} THEN None
                 ELSE data.v[CHOOSE i \in dicts : \A j \in dicts : i <= j][2]
    IN  IF resp.kind # "json" \/ data.t # "dict" THEN result = None
        ELSE IF at(id) # {} THEN result = val(id)
        ELSE IF at(SONGS) # {} /\ val(SONGS).t \in {"list", "str"} /\ val(SONGS).v # <<>>
        THEN result = IF val(SONGS).t = "list" THEN val(SONGS).v[1]
                      ELSE JStr(<<val(SONGS).v[1]>>)
        ELSE IF at(SONGS) # {} /\ val(SONGS).t = "dict" /\ val(SONGS).v # <<>>
        THEN TRUE
        ELSE result = third

C9_DetailsFirstMatchWins ==
    last.fn = "get_song_details" =>
        DetailsAllowed(IdOf(last.arg[1]), last.arg[2], last.r.ret)

(***************************************************************************)
(* C10: on the jiosaavn branch, when the extraction on the original URL    *)
(* returned the track's info (the file was downloaded), no second download *)
(* is started and the run ends as succeeded.                               *)
(***************************************************************************)
C10_NoFallbackAfterSuccessfulExtraction ==
    (InMain /\ url_type = "jiosaavn" /\ calls # <<>> /\ calls[1].ok) =>
        /\ pc = "done"
        /\ Len(calls) = 1
        /\ outcome = "succeeded"

====
